---- MODULE Spec2Model ----
(***************************************************************************)
(* Line-following robot simulation (line_follower_sim.py).                 *)
(*                                                                         *)
(* One iteration of the main loop is one action: poll events, read the     *)
(* five sensors, decide_robot_action, integrate heading and position,      *)
(* clamp to the window.  The pixel colours under the sensors are the       *)
(* environment's input: every iteration draws the five booleans freely.    *)
(*                                                                         *)
(* Numbers.  Angles are whole degrees: with TURN_RATE = 2 every turn the   *)
(* controller emits (1.5 * 2, 2 * 2, weight * 2) is a whole number, so the *)
(* float arithmetic of the source is exact on them.  Positions are fixed   *)
(* point, Scale units per pixel, and cos/sin come from a table rounded to  *)
(* 1/Scale; the rounding of the last float digit is not modelled.          *)
(***************************************************************************)
EXTENDS Integers, FiniteSets, Sequences, TLC

\* ---------------------------------------------------------------- constants

WIDTH == 800
HEIGHT == 600
BASE_ROBOT_SPEED == 2
TURN_RATE == 2
MAX_LOST_TIME_FRAMES == 120

\* exit() with no argument ends the process with status 0; so does running
\* off the end of the script after the loop.
AbortExitStatus == 0
NormalExitStatus == 0

SensorNames == {"left_forward", "left", "center", "right", "right_forward"}

\* Faulty variant: the two lateral weights not opposite.
SENSOR_WEIGHTS_Skewed ==
    [left_forward |-> -3, left |-> -2, center |-> 0, right |-> 3, right_forward |-> 3]

SENSOR_WEIGHTS ==
    [left_forward |-> -3, left |-> -2, center |-> 0, right |-> 2, right_forward |-> 3]

\* Fixed-point resolution of a position: units per pixel.
Scale == 1000

\* ------------------------------------------------------------------- bounds

\* Iterations on which some sensor is on the line (the robot moves, or finds
\* the line again); iterations with every sensor off the line are unbounded.
MaxEvents == 1

\* ------------------------------------------------------------ pure helpers

\* Python's max(lo, min(hi, v)).
Clamp(lo, hi, v) ==
    LET m == IF hi < v THEN hi ELSE v
    IN  IF lo > m THEN lo ELSE m

\* C-style remainder (sign of the dividend): what % is in C or Java.
TruncMod(a, b) ==
    IF a >= 0 THEN a - b * (a \div b) ELSE -((-a) - b * ((-a) \div b))

\* Python's a % b for b > 0: the result has the sign of the divisor.
PyMod(a, b) ==
    a - b * (a \div b)

\* round(1000 * sin(d degrees)) for d = 0..90 (index d + 1).
SinTable ==
    << 0, 17, 35, 52, 70, 87, 105, 122, 139, 156, 174, 191, 208, 225, 242,
       259, 276, 292, 309, 326, 342, 358, 375, 391, 407, 423, 438, 454, 469,
       485, 500, 515, 530, 545, 559, 574, 588, 602, 616, 629, 643, 656, 669,
       682, 695, 707, 719, 731, 743, 755, 766, 777, 788, 799, 809, 819, 829,
       839, 848, 857, 866, 875, 883, 891, 899, 906, 914, 921, 927, 934, 940,
       946, 951, 956, 961, 966, 970, 974, 978, 982, 985, 988, 990, 993, 995,
       996, 998, 999, 999, 1000, 1000 >>

\* math.sin(math.radians(deg)) in units of 1/Scale, any whole deg.
Sin(deg) ==
    LET a == PyMod(deg, 360)
    IN  IF a <= 90 THEN SinTable[a + 1]
        ELSE IF a <= 180 THEN SinTable[180 - a + 1]
        ELSE IF a <= 270 THEN -SinTable[a - 180 + 1]
        ELSE -SinTable[360 - a + 1]

\* math.cos(math.radians(deg)) in units of 1/Scale.
Cos(deg) ==
    Sin(deg + 90)

\* any(sensor_states.values())
AnySensor(s) ==
    \E n \in SensorNames : s[n]

RECURSIVE SumWeights(_, _)
SumWeights(S, s) ==
    IF S = {} THEN 0
    ELSE LET n == CHOOSE m \in S : TRUE
         IN  (IF s[n] THEN SENSOR_WEIGHTS[n] ELSE 0) + SumWeights(S \ {n}, s)

\* sum(SENSOR_WEIGHTS[s] for s in sensor_states if sensor_states[s])
SteeringError(s) ==
    SumWeights(SensorNames, s)

\* Faulty variant: the clamp forgotten.
WeightedTurn_NoClamp(s) ==
    SteeringError(s) * TURN_RATE

\* max(-TURN_RATE * 3, min(TURN_RATE * 3, steering_error * TURN_RATE))
WeightedTurn(s) ==
    Clamp(-(TURN_RATE * 3), TURN_RATE * 3, SteeringError(s) * TURN_RATE)

\* TURN_RATE * 1.5
HardTurn ==
    (TURN_RATE * 3) \div 2

\* TURN_RATE * 2
CornerTurn ==
    TURN_RATE * 2

\* ----------------------------------------------------------------- sensing

WHITE == << 255, 255, 255 >>
BLACK == << 0, 0, 0 >>
ROBOT_COLOR == << 220, 20, 60 >>
SENSOR_COLOR_ACTIVE == << 0, 255, 0 >>
SENSOR_COLOR_PASSIVE == << 255, 0, 0 >>

\* is_on_line's default tolerance.
Tolerance == 80

robot_radius == 15
sensor_forward_distance == 20
sensor_lateral_offset == 15
sensor_radius == 6
track_thickness == 25

Abs(v) ==
    IF v < 0 THEN -v ELSE v

\* Faulty variant: <= for <.
is_on_line_Inclusive(color, line_color, tolerance) ==
    /\ Abs(color[1] - line_color[1]) <= tolerance
    /\ Abs(color[2] - line_color[2]) <= tolerance
    /\ Abs(color[3] - line_color[3]) <= tolerance

is_on_line(color, line_color, tolerance) ==
    /\ Abs(color[1] - line_color[1]) < tolerance
    /\ Abs(color[2] - line_color[2]) < tolerance
    /\ Abs(color[3] - line_color[3]) < tolerance

\* int(v) of a fixed-point coordinate: truncation toward zero, in pixels.
IntTrunc(v) ==
    IF v >= 0 THEN v \div Scale ELSE -((-v) \div Scale)

\* v * (cos or sin from the table), a length in fixed point.
Along(trig, length) ==
    (trig * length * Scale) \div 1000

\* calculate_sensor_positions: fixed-point <<x, y>> of each sensor.
calculate_sensor_positions(x, y, angle) ==
    LET cx == x + Along(Cos(angle), sensor_forward_distance)
        cy == y + Along(Sin(angle), sensor_forward_distance)
        d  == (sensor_forward_distance * 3) \div 2
    IN  [center |-> << cx, cy >>,
         left |-> << cx + Along(Cos(angle - 90), sensor_lateral_offset),
                     cy + Along(Sin(angle - 90), sensor_lateral_offset) >>,
         right |-> << cx + Along(Cos(angle + 90), sensor_lateral_offset),
                      cy + Along(Sin(angle + 90), sensor_lateral_offset) >>,
         left_forward |-> << x + Along(Cos(angle + 45), d), y + Along(Sin(angle + 45), d) >>,
         right_forward |-> << x + Along(Cos(angle - 45), d), y + Along(Sin(angle - 45), d) >>]

\* The window is the list of the drawing calls made since it was last filled;
\* a pixel has the colour of the last call that paints it.

\* WIN right after pygame.display.set_mode: all black.
NewWindow ==
    << [op |-> "fill", color |-> BLACK] >>

\* WIN.fill(color)
Fill(color) ==
    << [op |-> "fill", color |-> color] >>

draw_track(surface) ==
    Append(surface, [op |-> "draw_track"])

draw_robot(surface, x, y, angle) ==
    Append(surface, [op |-> "draw_robot", x |-> x, y |-> y, angle |-> angle])

draw_sensors_debug(surface, positions, states) ==
    Append(surface, [op |-> "draw_sensors_debug", positions |-> positions,
                     states |-> states])

\* pygame.Rect(x, y, w, h) holds pixel <<ix, iy>>.
InRect(x, y, w, h, ix, iy) ==
    /\ x <= ix /\ ix < x + w
    /\ y <= iy /\ iy < y + h

\* What draw_track paints at a pixel: <<colour>>, or <<>> where it paints
\* nothing.  The inner white rectangle is drawn over the outer black one.
TrackPaint(ix, iy) ==
    IF InRect(100 + track_thickness, 100 + track_thickness,
              600 - 2 * track_thickness, 400 - 2 * track_thickness, ix, iy)
    THEN << WHITE >>
    ELSE IF InRect(100, 100, 600, 400, ix, iy) THEN << BLACK >>
    ELSE << >>

\* Twice the signed area of the triangle a, b, c.
Cross(a, b, c) ==
    (b[1] - a[1]) * (c[2] - a[2]) - (b[2] - a[2]) * (c[1] - a[1])

\* What draw_robot paints: the triangle with the nose at angle and the rear
\* corners at angle + 140 and angle - 140, robot_radius from the centre.
RobotPaint(x, y, angle, ix, iy) ==
    LET p1 == << x + Along(Cos(angle), robot_radius), y + Along(Sin(angle), robot_radius) >>
        p2 == << x + Along(Cos(angle + 140), robot_radius),
                 y + Along(Sin(angle + 140), robot_radius) >>
        p3 == << x + Along(Cos(angle - 140), robot_radius),
                 y + Along(Sin(angle - 140), robot_radius) >>
        q  == << ix * Scale, iy * Scale >>
        d1 == Cross(p1, p2, q)
        d2 == Cross(p2, p3, q)
        d3 == Cross(p3, p1, q)
    IN  IF \/ (d1 >= 0 /\ d2 >= 0 /\ d3 >= 0)
           \/ (d1 <= 0 /\ d2 <= 0 /\ d3 <= 0)
        THEN << ROBOT_COLOR >>
        ELSE << >>

\* The order in which the sensors are put into the dictionaries.
SensorOrder ==
    << "center", "left", "right", "left_forward", "right_forward" >>

\* What draw_sensors_debug paints: per sensor, in order, a disc of
\* sensor_radius at the sensor in green or red.  The label it blits beside the
\* disc is not modelled: its glyphs depend on the font.
RECURSIVE MarkersPaint(_, _, _, _, _)
MarkersPaint(positions, states, k, ix, iy) ==
    IF k = 0 THEN << >>
    ELSE LET n  == SensorOrder[k]
             dx == ix - IntTrunc(positions[n][1])
             dy == iy - IntTrunc(positions[n][2])
         IN  IF dx * dx + dy * dy <= sensor_radius * sensor_radius
             THEN << IF states[n] THEN SENSOR_COLOR_ACTIVE ELSE SENSOR_COLOR_PASSIVE >>
             ELSE MarkersPaint(positions, states, k - 1, ix, iy)

Paint(cmd, ix, iy) ==
    IF cmd.op = "fill" THEN << cmd.color >>
    ELSE IF cmd.op = "draw_track" THEN TrackPaint(ix, iy)
    ELSE IF cmd.op = "draw_robot" THEN RobotPaint(cmd.x, cmd.y, cmd.angle, ix, iy)
    ELSE MarkersPaint(cmd.positions, cmd.states, Len(SensorOrder), ix, iy)

RECURSIVE ColorAt(_, _, _, _)
ColorAt(surface, k, ix, iy) ==
    IF k = 0 THEN BLACK
    ELSE IF Paint(surface[k], ix, iy) # << >> THEN Paint(surface[k], ix, iy)[1]
    ELSE ColorAt(surface, k - 1, ix, iy)

\* WIN.get_at((ix, iy))[:3]; IndexError outside the window.
get_at(surface, ix, iy) ==
    IF 0 <= ix /\ ix < WIDTH /\ 0 <= iy /\ iy < HEIGHT
    THEN [err |-> FALSE, color |-> ColorAt(surface, Len(surface), ix, iy)]
    ELSE [err |-> TRUE, color |-> WHITE]

\* if 0 <= int(x) < WIDTH and 0 <= int(y) < HEIGHT
\* Faulty variant: <= for the upper limits.
InWindow_Inclusive(ix, iy) ==
    0 <= ix /\ ix <= WIDTH /\ 0 <= iy /\ iy <= HEIGHT

InWindow(ix, iy) ==
    0 <= ix /\ ix < WIDTH /\ 0 <= iy /\ iy < HEIGHT

\* get_pixel_color: the colour at a fixed-point position, white outside.
get_pixel_color(surface, p) ==
    IF InWindow(IntTrunc(p[1]), IntTrunc(p[2]))
    THEN get_at(surface, IntTrunc(p[1]), IntTrunc(p[2]))
    ELSE [err |-> FALSE, color |-> WHITE]

\* The colours sense_line reads, per sensor.
SampleAll(surface, positions) ==
    [n \in SensorNames |-> get_pixel_color(surface, positions[n])]

\* sense_line, when no sample raised.
sense_line(samples) ==
    [n \in SensorNames |-> is_on_line(samples[n].color, BLACK, Tolerance)]

\* The window the sensors read: WIN.fill(WHITE), draw_track() come first.
\* Faulty variant: the window read as the last iteration left it.
SurfaceAtSense_Stale(surface) ==
    surface

SurfaceAtSense(surface) ==
    draw_track(Fill(WHITE))

\* ------------------------------------------------- decide_robot_action

\* The command of an iteration and the controller state it leaves:
\* exited is TRUE when decide_robot_action ended the process (exit()).
Outcome(m, c, t, v, e) ==
    [mode |-> m, counter |-> c, turn |-> t, speed |-> v, exited |-> e]

\* FOLLOW_LINE, no sensor on the line.
\* Faulty variant: current_speed = 0 forgotten.
LoseLine_KeepSpeed ==
    Outcome("LOST_LINE_SEARCH", 0, 0, BASE_ROBOT_SPEED, FALSE)

LoseLine ==
    Outcome("LOST_LINE_SEARCH", 0, 0, 0, FALSE)

\* FOLLOW_LINE, center off the line, some other sensor on it: the if/elif chain.
\* Faulty variant: the forward pair tested before the lateral pair.
PriorityTurn_ForwardFirst(s) ==
    IF s["left_forward"] /\ ~s["right_forward"] THEN -CornerTurn
    ELSE IF s["right_forward"] /\ ~s["left_forward"] THEN CornerTurn
    ELSE IF s["left"] /\ ~s["right"] THEN -HardTurn
    ELSE IF s["right"] /\ ~s["left"] THEN HardTurn
    ELSE WeightedTurn(s)

PriorityTurn(s) ==
    IF s["left"] /\ ~s["right"] THEN -HardTurn
    ELSE IF s["right"] /\ ~s["left"] THEN HardTurn
    ELSE IF s["left_forward"] /\ ~s["right_forward"] THEN -CornerTurn
    ELSE IF s["right_forward"] /\ ~s["left_forward"] THEN CornerTurn
    ELSE WeightedTurn(s)

\* The FOLLOW_LINE branch.
FollowStep(s) ==
    IF ~AnySensor(s) THEN LoseLine
    ELSE IF s["center"]
         THEN Outcome("FOLLOW_LINE", 0, WeightedTurn(s), BASE_ROBOT_SPEED, FALSE)
         ELSE Outcome("FOLLOW_LINE", 0, PriorityTurn(s), BASE_ROBOT_SPEED, FALSE)

\* The sweep: counter is LOST_LINE_COUNTER after its increment.
\* Faulty variant: <= for <.
SearchTurn_Inclusive(counter) ==
    IF counter % (MAX_LOST_TIME_FRAMES \div 2) <= (MAX_LOST_TIME_FRAMES \div 4)
    THEN HardTurn ELSE -HardTurn

SearchTurn(counter) ==
    IF counter % (MAX_LOST_TIME_FRAMES \div 2) < (MAX_LOST_TIME_FRAMES \div 4)
    THEN HardTurn ELSE -HardTurn

\* if LOST_LINE_COUNTER > MAX_LOST_TIME_FRAMES
\* Faulty variants: the threshold off by one either way.
TimedOut_Late(counter) ==
    counter > MAX_LOST_TIME_FRAMES + 1

TimedOut_Early(counter) ==
    counter >= MAX_LOST_TIME_FRAMES

TimedOut(counter) ==
    counter > MAX_LOST_TIME_FRAMES

\* The LOST_LINE_SEARCH branch: increment, sweep, recovery, then timeout.
\* Faulty variants: the counter not reset on recovery; the base speed restored
\* on recovery; the timeout tested before the recovery.
SearchStep_KeepCounter(counter, s) ==
    LET c1 == counter + 1
        m2 == IF AnySensor(s) THEN "FOLLOW_LINE" ELSE "LOST_LINE_SEARCH"
    IN  Outcome(m2, c1, SearchTurn(c1), 0, TimedOut(c1))

SearchStep_ResumeSpeed(counter, s) ==
    LET c1 == counter + 1
        m2 == IF AnySensor(s) THEN "FOLLOW_LINE" ELSE "LOST_LINE_SEARCH"
        c2 == IF AnySensor(s) THEN 0 ELSE c1
        v  == IF AnySensor(s) THEN BASE_ROBOT_SPEED ELSE 0
    IN  Outcome(m2, c2, SearchTurn(c1), v, TimedOut(c2))

SearchStep_TimeoutFirst(counter, s) ==
    LET c1 == counter + 1
        m2 == IF AnySensor(s) THEN "FOLLOW_LINE" ELSE "LOST_LINE_SEARCH"
        c2 == IF AnySensor(s) THEN 0 ELSE c1
    IN  IF TimedOut(c1) THEN Outcome("LOST_LINE_SEARCH", c1, SearchTurn(c1), 0, TRUE)
        ELSE Outcome(m2, c2, SearchTurn(c1), 0, FALSE)

SearchStep(counter, s) ==
    LET c1 == counter + 1
        m2 == IF AnySensor(s) THEN "FOLLOW_LINE" ELSE "LOST_LINE_SEARCH"
        c2 == IF AnySensor(s) THEN 0 ELSE c1
    IN  Outcome(m2, c2, SearchTurn(c1), 0, TimedOut(c2))

decide_robot_action(mode, counter, s) ==
    IF mode = "FOLLOW_LINE" THEN FollowStep(s) ELSE SearchStep(counter, s)

\* ------------------------------------------------------------ main loop

\* for event in pygame.event.get(): if event.type == pygame.QUIT: running = False
\* Faulty variant: the QUIT event ignored.
PollEvents_Ignore(flag, quit) ==
    flag

PollEvents(flag, quit) ==
    IF quit THEN FALSE ELSE flag

\* What ending the process does, in order.  On the timeout: the message, then
\* pygame.quit(), then exit().  After the loop: pygame.quit(), then the script ends.
\* An exception nobody catches: the traceback, status 1.
CrashShutdown ==
    << "traceback: IndexError" >>

CrashExitStatus == 1

AbortShutdown ==
    << "print: Lost line for too long, stopping simulation.", "pygame.quit", "exit" >>

NormalShutdown ==
    << "pygame.quit", "end of script" >>

\* ------------------------------------------------------------ integration

\* robot_angle += turn; robot_angle %= 360
\* Faulty variant: a remainder that keeps the sign of the dividend.
NextAngle_Trunc(angle, turn) ==
    TruncMod(angle + turn, 360)

NextAngle(angle, turn) ==
    PyMod(angle + turn, 360)

\* robot_pos += (cos, sin)(robot_angle) * speed, before the clamp.
RawPos(pos, angle, speed) ==
    << pos[1] + (Cos(angle) * speed * Scale) \div 1000,
       pos[2] + (Sin(angle) * speed * Scale) \div 1000 >>

\* max(0, min(WIDTH - 1, x)), max(0, min(HEIGHT - 1, y))
\* Faulty variant: clamped to WIDTH, HEIGHT.
ClampPos_OffByOne(p) ==
    << Clamp(0, WIDTH * Scale, p[1]), Clamp(0, HEIGHT * Scale, p[2]) >>

ClampPos(p) ==
    << Clamp(0, (WIDTH - 1) * Scale, p[1]), Clamp(0, (HEIGHT - 1) * Scale, p[2]) >>

\* ------------------------------------------------------------------ state

VARIABLES
    ROBOT_MODE,         \* "FOLLOW_LINE" or "LOST_LINE_SEARCH"
    LOST_LINE_COUNTER,  \* iterations spent searching
    robot_angle,        \* heading, degrees
    robot_pos,          \* <<x, y>>, 1/Scale pixels
    running,            \* the main loop's flag
    aborted,            \* decide_robot_action called exit()
    last,               \* the iteration just executed: its inputs and its command
    shutdown,           \* what the process did to end, in order; <<>> while it runs
    exit_status,        \* <<status>> once the process has ended, <<>> before
    search_n,           \* iterations begun in LOST_LINE_SEARCH since the line was lost
    sweep,              \* turn summed over the search so far, and its extremes
    events,             \* iterations with a sensor on the line so far
    probe,              \* a colour sample classified on its own (is_on_line)
    surface             \* WIN: what is drawn on the window

vars ==
    << ROBOT_MODE, LOST_LINE_COUNTER, robot_angle, robot_pos, running, aborted,
       shutdown, exit_status, last, search_n, sweep, events, probe, surface >>

SensorInputs ==
    [SensorNames -> BOOLEAN]

NoSensor ==
    [n \in SensorNames |-> FALSE]

\* robot_pos = [100 + (25 / 2), 100 + (25 / 2)]
StartPos ==
    << (225 * Scale) \div 2, (225 * Scale) \div 2 >>

\* The heading the robot has when it loses the line is deviation 0.
NoSweep ==
    [dev |-> 0, max |-> 0, min |-> 0]

\* The deviation after a searching iteration that turned by turn.
Swept(sw, turn) ==
    LET d == sw.dev + turn
    IN  [dev |-> d,
         max |-> IF d > sw.max THEN d ELSE sw.max,
         min |-> IF d < sw.min THEN d ELSE sw.min]

\* No colour under test.
NoProbe ==
    [done |-> FALSE, color |-> WHITE, t1 |-> Tolerance, t2 |-> Tolerance,
     on1 |-> FALSE, on2 |-> FALSE]

NoIteration(angle, pos) ==
    [ticked |-> FALSE, quit |-> FALSE, mode |-> "FOLLOW_LINE", counter |-> 0,
     angle |-> angle, pos |-> pos, sensors |-> NoSensor, n |-> 0,
     positions |-> calculate_sensor_positions(pos[1], pos[2], angle),
     turn |-> 0, speed |-> 0, raw |-> pos]

Init ==
    /\ ROBOT_MODE = "FOLLOW_LINE"
    /\ LOST_LINE_COUNTER = 0
    /\ robot_angle = 0
    /\ robot_pos = StartPos
    /\ running = TRUE
    /\ aborted = FALSE
    /\ shutdown = << >>
    /\ exit_status = << >>
    /\ last = NoIteration(0, StartPos)
    /\ search_n = 0
    /\ sweep = NoSweep
    /\ events = 0
    /\ surface = NewWindow
    /\ probe = NoProbe

\* One pass of the while loop: s is what sense_line returns, quit tells whether
\* the event queue held a QUIT event.  When the flag is down after the pass the
\* loop is left and the script ends (pygame.quit() at the bottom of the file).
Iteration(s, quit) ==
    LET positions == calculate_sensor_positions(robot_pos[1], robot_pos[2], robot_angle)
        d     == decide_robot_action(ROBOT_MODE, LOST_LINE_COUNTER, s)
        angle == NextAngle(robot_angle, d.turn)
        raw   == RawPos(robot_pos, angle, d.speed)
        pos   == ClampPos(raw)
        follow == ROBOT_MODE = "FOLLOW_LINE"
    IN  /\ running
        /\ ~aborted
        /\ exit_status = << >>
        /\ running' = PollEvents(running, quit)
        /\ ROBOT_MODE' = d.mode
        /\ LOST_LINE_COUNTER' = d.counter
        /\ aborted' = d.exited
        /\ shutdown' = IF d.exited THEN AbortShutdown
                       ELSE IF ~PollEvents(running, quit) THEN NormalShutdown
                       ELSE << >>
        /\ exit_status' = IF d.exited THEN << AbortExitStatus >>
                          ELSE IF ~PollEvents(running, quit) THEN << NormalExitStatus >>
                          ELSE << >>
        /\ robot_angle' = IF d.exited THEN robot_angle ELSE angle
        /\ robot_pos' = IF d.exited THEN robot_pos ELSE pos
        /\ surface' = IF d.exited THEN draw_track(Fill(WHITE))
                      ELSE draw_sensors_debug(
                               draw_robot(draw_track(Fill(WHITE)), pos[1], pos[2], angle),
                               positions, s)
        /\ last' = [ticked |-> TRUE, quit |-> quit, mode |-> ROBOT_MODE,
                    counter |-> LOST_LINE_COUNTER, angle |-> robot_angle,
                    pos |-> robot_pos, sensors |-> s,
                    n |-> IF follow THEN 0 ELSE search_n,
                    positions |-> positions,
                    turn |-> d.turn, speed |-> d.speed, raw |-> raw]
        /\ search_n' = IF follow THEN 0 ELSE search_n + 1
        /\ sweep' = IF follow THEN NoSweep
                    ELSE IF d.exited THEN sweep
                    ELSE Swept(sweep, d.turn)
        /\ UNCHANGED probe

\* A sample raised IndexError: the process dies in sense_line.
Crash(quit) ==
    /\ running
    /\ ~aborted
    /\ exit_status = << >>
    /\ running' = PollEvents(running, quit)
    /\ shutdown' = CrashShutdown
    /\ exit_status' = << CrashExitStatus >>
    /\ surface' = draw_track(Fill(WHITE))
    /\ last' = [ticked |-> TRUE, quit |-> quit, mode |-> ROBOT_MODE,
                counter |-> LOST_LINE_COUNTER, angle |-> robot_angle,
                pos |-> robot_pos, sensors |-> NoSensor, n |-> search_n,
                positions |-> calculate_sensor_positions(robot_pos[1], robot_pos[2],
                                                         robot_angle),
                turn |-> 0, speed |-> 0, raw |-> robot_pos]
    /\ UNCHANGED << ROBOT_MODE, LOST_LINE_COUNTER, robot_angle, robot_pos, aborted,
                    search_n, sweep, probe >>

\* One pass with the sensors reading the window.
SensedIteration(quit) ==
    LET positions == calculate_sensor_positions(robot_pos[1], robot_pos[2], robot_angle)
        samples   == SampleAll(SurfaceAtSense(surface), positions)
    IN  IF \E n \in SensorNames : samples[n].err
        THEN Crash(quit)
        ELSE Iteration(sense_line(samples), quit)

\* The sensor readings left to the environment: any track, any five readings,
\* within the budget of iterations with a sensor on the line.
Counted(s) ==
    /\ AnySensor(s) => events < MaxEvents
    /\ events' = IF AnySensor(s) THEN events + 1 ELSE events

Tick ==
    \E s \in SensorInputs : Counted(s) /\ Iteration(s, FALSE)

QuitTick ==
    \E s \in SensorInputs : Counted(s) /\ Iteration(s, TRUE)

Next ==
    \/ Tick
    \/ QuitTick

Spec ==
    Init /\ [][Next]_vars

\* Poses next to the walls, each reached from Init by the inputs named (C: only
\* center on the line, N: no sensor on the line), one move short of the clamp.
\*   southeast: N, 14 N, C (sweep to 45 degrees), 485 C (the last of them
\*              sliding east along the south wall)
\*   northwest: N, 28 N, C; N, 28 N, C; N, 16 N, C (sweep to 225 degrees), 79 C
WallPoses ==
    { [angle |-> 45,  pos |-> << (798290 * Scale) \div 1000, (599000 * Scale) \div 1000 >>],
      [angle |-> 225, pos |-> << (794 * Scale) \div 1000, (794 * Scale) \div 1000 >>] }

InitPos ==
    \E w \in WallPoses :
        /\ ROBOT_MODE = "FOLLOW_LINE"
        /\ LOST_LINE_COUNTER = 0
        /\ robot_angle = w.angle
        /\ robot_pos = w.pos
        /\ running = TRUE
        /\ aborted = FALSE
        /\ shutdown = << >>
        /\ exit_status = << >>
        /\ last = NoIteration(w.angle, w.pos)
        /\ search_n = 0
        /\ sweep = NoSweep
        /\ events = 0
        /\ surface = NewWindow
        /\ probe = NoProbe

SpecPos ==
    InitPos /\ [][Next]_vars

\* The program on its own track: the sensors read the window.
TrackTick ==
    SensedIteration(FALSE) /\ UNCHANGED events

TrackQuitTick ==
    SensedIteration(TRUE) /\ UNCHANGED events

NextTrack ==
    \/ TrackTick
    \/ TrackQuitTick

SpecTrack ==
    Init /\ [][NextTrack]_vars

\* calculate_sensor_positions and sense_line on their own: an iteration from
\* any heading at positions in the open, on the track, on the walls and in
\* the corners of the window.
SensePositions ==
    { StartPos,
      << 0, 0 >>,
      << 0, 300 * Scale >>,
      << 400 * Scale, 0 >>,
      << (WIDTH - 1) * Scale, 300 * Scale >>,
      << (WIDTH - 1) * Scale, (HEIGHT - 1) * Scale >>,
      << 400 * Scale, 300 * Scale >> }

InitSense ==
    \E a \in 0 .. 359, q \in SensePositions :
        /\ ROBOT_MODE = "FOLLOW_LINE"
        /\ LOST_LINE_COUNTER = 0
        /\ robot_angle = a
        /\ robot_pos = q
        /\ running = TRUE
        /\ aborted = FALSE
        /\ shutdown = << >>
        /\ exit_status = << >>
        /\ last = NoIteration(a, q)
        /\ search_n = 0
        /\ sweep = NoSweep
        /\ events = 0
        /\ probe = NoProbe
        /\ surface = NewWindow

\* events counts the iterations run from the pose.
SenseTick ==
    /\ events < MaxEvents
    /\ SensedIteration(FALSE)
    /\ events' = events + 1

SenseQuitTick ==
    /\ events < MaxEvents
    /\ SensedIteration(TRUE)
    /\ events' = events + 1

NextSense ==
    \/ SenseTick
    \/ SenseQuitTick

SpecSense ==
    InitSense /\ [][NextSense]_vars

\* is_on_line on its own: a colour and two tolerances, t1 <= t2.
Channels ==
    {0, 1, 79, 80, 81, 255}

Tolerances ==
    {0, 1, 79, 80, 81, 256}

InitColor ==
    /\ ROBOT_MODE = "FOLLOW_LINE"
    /\ LOST_LINE_COUNTER = 0
    /\ robot_angle = 0
    /\ robot_pos = StartPos
    /\ running = TRUE
    /\ aborted = FALSE
    /\ shutdown = << >>
    /\ exit_status = << >>
    /\ last = NoIteration(0, StartPos)
    /\ search_n = 0
    /\ sweep = NoSweep
    /\ events = 0
    /\ surface = NewWindow
    /\ \E c \in Channels \X Channels \X Channels, t1 \in Tolerances, t2 \in Tolerances :
          /\ t1 <= t2
          /\ probe = [done |-> FALSE, color |-> c, t1 |-> t1, t2 |-> t2,
                      on1 |-> FALSE, on2 |-> FALSE]

\* The colour is classified against the line colour with each tolerance.
Classify ==
    /\ ~probe.done
    /\ probe' = [probe EXCEPT !.done = TRUE,
                              !.on1 = is_on_line(probe.color, BLACK, probe.t1),
                              !.on2 = is_on_line(probe.color, BLACK, probe.t2)]
    /\ UNCHANGED << ROBOT_MODE, LOST_LINE_COUNTER, robot_angle, robot_pos, running,
                    aborted, shutdown, exit_status, last, search_n, sweep, events,
                    surface >>

SpecColor ==
    InitColor /\ [][Classify]_vars

\* ----------------------------------------------------------------- claims

\* What the iteration just executed began with.
BeganFollowing ==
    last.ticked /\ last.mode = "FOLLOW_LINE"

BeganSearching ==
    last.ticked /\ last.mode = "LOST_LINE_SEARCH"

Sensed ==
    \E n \in SensorNames : last.sensors[n]

\* C1: whenever the mode is FOLLOW_LINE between iterations, LOST_LINE_COUNTER
\* is 0; in particular right after a search found the line again and after an
\* iteration spent following with a sensor on the line.
C1_FollowingCounterZero ==
    ROBOT_MODE = "FOLLOW_LINE" => LOST_LINE_COUNTER = 0

C1_Witness ==
    /\ BeganSearching
    /\ last.counter > 0
    /\ ROBOT_MODE = "FOLLOW_LINE"

\* C2: the 121st consecutive searching iteration with every sensor off the
\* line ends the process: the pose is not integrated on it, no iteration is
\* possible afterwards, and no search ever runs longer.
C2_AbortOn121stQuietTick ==
    /\ search_n <= MAX_LOST_TIME_FRAMES + 1
    /\ (BeganSearching /\ ~Sensed /\ search_n = MAX_LOST_TIME_FRAMES + 1)
          => /\ aborted
             /\ robot_angle = last.angle
             /\ robot_pos = last.pos
             /\ ~ENABLED Next

C2_Witness ==
    /\ BeganSearching
    /\ ~Sensed
    /\ search_n = 121
    /\ aborted

\* C3 as claimed: on the n-th searching iteration of an uninterrupted search
\* (n from 0) the turn is +1.5 * TURN_RATE when n mod 60 < 30, else
\* -1.5 * TURN_RATE.
C3_SweepByTickIndex ==
    (BeganSearching /\ ~Sensed /\ ~aborted)
        => 2 * last.turn = (IF last.n % 60 < 30 THEN 3 ELSE -3) * TURN_RATE

\* C3 as amended: the sweep is indexed by the counter after its increment,
\* n + 1: +1.5 * TURN_RATE for n in 0..28, 59..88 and 119, -1.5 * TURN_RATE
\* for n in 29..58 and 89..118.
C3_SweepByCounter ==
    (BeganSearching /\ ~Sensed /\ ~aborted)
        => /\ last.n \in 0 .. 119
           /\ last.n \in (0 .. 28) \cup (59 .. 88) \cup {119}
                 => 2 * last.turn = 3 * TURN_RATE
           /\ last.n \in (29 .. 58) \cup (89 .. 118)
                 => 2 * last.turn = -3 * TURN_RATE

C3_Witness ==
    /\ BeganSearching
    /\ ~Sensed
    /\ last.n = 29
    /\ 2 * last.turn = -3 * TURN_RATE

\* C4: following with center off the line and another sensor on it, the
\* first matching rule decides: left only of the lateral pair, right only of
\* the lateral pair, left_forward only of the forward pair, right_forward only
\* of the forward pair.
C4_PriorityOrder ==
    (BeganFollowing /\ Sensed /\ ~last.sensors["center"])
        => LET s  == last.sensors
               r1 == s["left"] /\ ~s["right"]
               r2 == s["right"] /\ ~s["left"]
               r3 == s["left_forward"] /\ ~s["right_forward"]
               r4 == s["right_forward"] /\ ~s["left_forward"]
           IN  /\ r1 => 2 * last.turn = -3 * TURN_RATE
               /\ (~r1 /\ r2) => 2 * last.turn = 3 * TURN_RATE
               /\ (~r1 /\ ~r2 /\ r3) => last.turn = -2 * TURN_RATE
               /\ (~r1 /\ ~r2 /\ ~r3 /\ r4) => last.turn = 2 * TURN_RATE

C4_Witness ==
    /\ BeganFollowing
    /\ last.sensors = [NoSensor EXCEPT !["left"] = TRUE, !["right_forward"] = TRUE]
    /\ 2 * last.turn = -3 * TURN_RATE

\* C5: following with center on the line, the turn is TURN_RATE times the
\* sum of the active weights, clamped to +-3 * TURN_RATE, at base speed; with
\* center alone the turn is 0 and the heading does not change.
C5_CenterProportional ==
    (BeganFollowing /\ last.sensors["center"])
        => LET s == last.sensors
               e == (IF s["left_forward"] THEN -3 ELSE 0) + (IF s["left"] THEN -2 ELSE 0)
                    + (IF s["right"] THEN 2 ELSE 0) + (IF s["right_forward"] THEN 3 ELSE 0)
               t == e * TURN_RATE
           IN  /\ last.turn = IF t > 3 * TURN_RATE THEN 3 * TURN_RATE
                              ELSE IF t < -3 * TURN_RATE THEN -3 * TURN_RATE ELSE t
               /\ last.speed = BASE_ROBOT_SPEED
               /\ s = [NoSensor EXCEPT !["center"] = TRUE]
                     => last.turn = 0 /\ robot_angle = last.angle

C5_Witness ==
    /\ BeganFollowing
    /\ last.sensors = [NoSensor EXCEPT !["center"] = TRUE, !["right"] = TRUE,
                                       !["right_forward"] = TRUE]
    /\ last.turn = 3 * TURN_RATE

\* C6: the heading is always in [0, 360), and after an iteration it is the
\* previous heading plus the turn, modulo 360.
C6_HeadingNormalised ==
    /\ robot_angle \in 0 .. 359
    /\ (last.ticked /\ ~aborted) => robot_angle = (last.angle + last.turn) % 360

C6_Witness ==
    /\ last.ticked
    /\ ~aborted
    /\ last.angle + last.turn < 0
    /\ robot_angle > 350

\* C7: an iteration begun following with no sensor on the line switches to
\* the search with counter 0, turn 0 and speed 0, and leaves the pose alone;
\* one begun following with a sensor on the line stays following.
C7_LoseLine ==
    /\ (BeganFollowing /\ ~Sensed)
          => /\ ROBOT_MODE = "LOST_LINE_SEARCH"
             /\ LOST_LINE_COUNTER = 0
             /\ last.turn = 0
             /\ last.speed = 0
             /\ robot_angle = last.angle
             /\ robot_pos = last.pos
    /\ (BeganFollowing /\ Sensed) => ROBOT_MODE = "FOLLOW_LINE"

C7_Witness ==
    /\ BeganFollowing
    /\ ~Sensed
    /\ last.angle # 0
    /\ ROBOT_MODE = "LOST_LINE_SEARCH"

\* C8: an iteration begun searching with a sensor on the line ends following
\* with counter 0 and does not end the process, whatever the counter was.
C8_RecoveryBeforeTimeout ==
    (BeganSearching /\ Sensed)
        => /\ ROBOT_MODE = "FOLLOW_LINE"
           /\ LOST_LINE_COUNTER = 0
           /\ ~aborted

C8_Witness ==
    /\ BeganSearching
    /\ Sensed
    /\ last.counter = MAX_LOST_TIME_FRAMES
    /\ ROBOT_MODE = "FOLLOW_LINE"
    /\ ~aborted

\* C9: the process ends only on an iteration begun searching, with no sensor
\* on the line, whose counter exceeds 120; otherwise the counter is in 0..120.
C9_AbortOnlyOnTimeout ==
    /\ aborted => /\ BeganSearching
                  /\ ~Sensed
                  /\ LOST_LINE_COUNTER > 120
    /\ ~aborted => LOST_LINE_COUNTER \in 0 .. 120

C9_Witness ==
    /\ aborted
    /\ last.mode = "LOST_LINE_SEARCH"
    /\ LOST_LINE_COUNTER = 121

\* C10: the position is always inside the window: 0 <= x <= WIDTH - 1 and
\* 0 <= y <= HEIGHT - 1, also when the step before the clamp left it.
C10_PositionInWindow ==
    /\ robot_pos[1] >= 0
    /\ robot_pos[1] <= 799 * Scale
    /\ robot_pos[2] >= 0
    /\ robot_pos[2] <= 599 * Scale

C10_Witness ==
    /\ last.ticked
    /\ last.speed = BASE_ROBOT_SPEED
    /\ last.raw[1] < 0
    /\ last.raw[2] < 0
    /\ robot_pos = << 0, 0 >>

\* Position of step in a shutdown sequence, 0 when it is not in it.
StepIndex(seq, step) ==
    IF \E i \in 1 .. Len(seq) : seq[i] = step
    THEN CHOOSE i \in 1 .. Len(seq) : seq[i] = step
    ELSE 0

\* C11: every iteration begun searching has speed 0, the one that finds the
\* line again included, and leaves the position where it was.
C11_SearchDoesNotMove ==
    BeganSearching => /\ last.speed = 0
                      /\ robot_pos = last.pos

C11_Witness ==
    /\ BeganSearching
    /\ Sensed
    /\ ROBOT_MODE = "FOLLOW_LINE"
    /\ robot_angle # last.angle
    /\ robot_pos = last.pos

\* C12: when the process ends on the search timeout its exit status differs
\* from the status of a normal quit, and the message is printed before
\* pygame.quit() and the exit.
C12_AbortStatusDistinct ==
    aborted =>
        /\ exit_status # << NormalExitStatus >>
        /\ StepIndex(shutdown, "print: Lost line for too long, stopping simulation.") > 0
        /\ StepIndex(shutdown, "print: Lost line for too long, stopping simulation.")
              < StepIndex(shutdown, "pygame.quit")
        /\ StepIndex(shutdown, "pygame.quit") < StepIndex(shutdown, "exit")

\* C16: after an iteration that polled a QUIT event, and after the search
\* timeout, no iteration runs; the iteration that polled the QUIT event is
\* itself completed.
C16_LoopTerminates ==
    /\ (last.ticked /\ last.quit) => ~ENABLED Next
    /\ aborted => ~ENABLED Next
    /\ (last.ticked /\ last.quit /\ ~aborted)
          => /\ robot_angle = (last.angle + last.turn) % 360
             /\ exit_status = << NormalExitStatus >>

C16_Witness ==
    /\ last.ticked
    /\ last.quit
    /\ ~aborted
    /\ last.speed = BASE_ROBOT_SPEED
    /\ robot_pos # last.pos
    /\ ~running

\* C17: over a search that runs into the timeout, the largest deviation from
\* the heading at which the line was lost is the same in both turn directions.
C17_SweepSymmetric ==
    aborted => sweep.max = -sweep.min

\* C19: every command has |turn| <= 3 * TURN_RATE and speed 0 or the base
\* speed, the base speed exactly when the iteration began following with a
\* sensor on the line; the heading moves by at most 3 * TURN_RATE degrees.
C19_CommandBounded ==
    last.ticked
        => /\ last.turn <= 3 * TURN_RATE
           /\ last.turn >= -3 * TURN_RATE
           /\ last.speed \in {0, BASE_ROBOT_SPEED}
           /\ (last.speed = BASE_ROBOT_SPEED) <=> (BeganFollowing /\ Sensed)
           /\ LET moved == (robot_angle - last.angle) % 360
              IN  moved <= 3 * TURN_RATE \/ moved >= 360 - 3 * TURN_RATE

C19_Witness ==
    /\ BeganFollowing
    /\ last.sensors = [NoSensor EXCEPT !["center"] = TRUE, !["left"] = TRUE,
                                       !["left_forward"] = TRUE]
    /\ last.turn = -3 * TURN_RATE
    /\ last.speed = BASE_ROBOT_SPEED

\* C20: following with center off the line and neither pair split (left =
\* right, left_forward = right_forward, some sensor on the line), the weighted
\* sum gives turn 0 at the base speed.
C20_FallbackIsStraight ==
    LET s == last.sensors
    IN  (/\ BeganFollowing
         /\ Sensed
         /\ ~s["center"]
         /\ s["left"] = s["right"]
         /\ s["left_forward"] = s["right_forward"])
            => /\ last.turn = 0
               /\ last.speed = BASE_ROBOT_SPEED

C20_Witness ==
    /\ BeganFollowing
    /\ last.sensors = [NoSensor EXCEPT !["left"] = TRUE, !["right"] = TRUE]
    /\ last.turn = 0
    /\ robot_pos # last.pos

\* C13: is_on_line is TRUE exactly when each of the three channel differences
\* is strictly below the tolerance, and a wider tolerance never turns a colour
\* on the line into one off it.
C13_OnLineStrictAndMonotonic ==
    probe.done
        => /\ probe.on1 <=> \A i \in 1 .. 3 :
                               \/ (probe.color[i] >= BLACK[i] /\ probe.color[i] - BLACK[i] < probe.t1)
                               \/ (probe.color[i] < BLACK[i] /\ BLACK[i] - probe.color[i] < probe.t1)
           /\ probe.on1 => probe.on2

C13_Witness ==
    /\ probe.done
    /\ probe.color = << 79, 80, 0 >>
    /\ probe.t1 = 80
    /\ probe.t2 = 81
    /\ ~probe.on1
    /\ probe.on2

\* A fixed-point position outside the window.
Outside(q) ==
    \/ q[1] < 0 \/ q[1] >= WIDTH * Scale
    \/ q[2] < 0 \/ q[2] >= HEIGHT * Scale

\* C14: a sensor whose position is outside the window, also by less than a
\* pixel below 0, raises nothing and reads inactive.
C14_OutsideReadsInactive ==
    last.ticked
        => /\ exit_status # << CrashExitStatus >>
           /\ shutdown # CrashShutdown
           /\ \A n \in SensorNames : Outside(last.positions[n]) => ~last.sensors[n]

C14_Witness ==
    /\ last.ticked
    /\ exit_status # << CrashExitStatus >>
    /\ \E n \in SensorNames :
          /\ last.positions[n][1] < 0
          /\ last.positions[n][1] > -Scale
          /\ last.positions[n][2] >= 0
          /\ last.positions[n][2] < HEIGHT * Scale
          /\ ~last.sensors[n]

\* The pixel is on the track as draw_track lays it out: inside the rectangle
\* 600 x 400 at (100, 100), not inside the one 25 further in on every side.
OnTrack(ix, iy) ==
    /\ 100 <= ix /\ ix < 700 /\ 100 <= iy /\ iy < 500
    /\ ~(125 <= ix /\ ix < 675 /\ 125 <= iy /\ iy < 475)

\* C15: the readings of an iteration are those of the bare track at the pose
\* the iteration began with, whatever the iteration before left on the
\* window; and the window it leaves shows the robot at the pose after the
\* integration and the markers where the sensors read.
C15_ReadingsFromTrackOnly ==
    last.ticked
        => /\ exit_status # << CrashExitStatus >>
           /\ \A n \in SensorNames :
                 last.sensors[n]
                    <=> LET q == calculate_sensor_positions(last.pos[1], last.pos[2],
                                                            last.angle)[n]
                        IN  /\ ~Outside(<< IntTrunc(q[1]) * Scale, IntTrunc(q[2]) * Scale >>)
                            /\ OnTrack(IntTrunc(q[1]), IntTrunc(q[2]))
           /\ ~aborted
                 => surface = << [op |-> "fill", color |-> WHITE],
                                 [op |-> "draw_track"],
                                 [op |-> "draw_robot", x |-> robot_pos[1],
                                  y |-> robot_pos[2], angle |-> robot_angle],
                                 [op |-> "draw_sensors_debug",
                                  positions |-> last.positions,
                                  states |-> last.sensors] >>

\* The window as the iteration left it shows a marker where the next
\* iteration's center sensor will read the track.
C15_Witness ==
    /\ last.ticked
    /\ running
    /\ last.sensors["center"]
    /\ LET q == calculate_sensor_positions(robot_pos[1], robot_pos[2], robot_angle)["center"]
       IN  /\ OnTrack(IntTrunc(q[1]), IntTrunc(q[2]))
           /\ get_pixel_color(surface, q).color = SENSOR_COLOR_ACTIVE

\* The side of the heading axis a sensor is on: the sign of the cross product
\* of the heading direction with the sensor's offset from the robot.
SideOf(n) ==
    LET ox == last.positions[n][1] - last.pos[1]
        oy == last.positions[n][2] - last.pos[2]
        c  == Cos(last.angle) * oy - Sin(last.angle) * ox
    IN  IF c > 0 THEN 1 ELSE IF c < 0 THEN -1 ELSE 0

\* C18: left and left_forward (negative weights) are on one side of the
\* heading axis, right and right_forward (positive weights) on the other.
C18_SidesMatchWeights ==
    last.ticked
        => /\ SideOf("left") # 0
           /\ SideOf("left_forward") = SideOf("left")
           /\ SideOf("right") = -SideOf("left")
           /\ SideOf("right_forward") = SideOf("right")

====
